---- MODULE Spec2Model ----
(***************************************************************************)
(* Circuit builders of quantum-image-processing:                           *)
(*   MPS                 models/tensor_network_circuits/mps.py             *)
(*   NEQR                data_encoder/image_representations/neqr.py        *)
(*   QuanvolutionalLayer neural_networks/layers/quanvolutional_layer.py    *)
(* A circuit is the sequence of calls the builder makes into the circuit   *)
(* library, in program order.  The library's own behaviour (gate algebra,  *)
(* qubit-range checks) is outside the model.  Python values None/True/False*)
(* passed as complex_structure or random are the strings "None", "True",   *)
(* "False"; img_dims, filter_size and pixel lists hold ints.               *)
(***************************************************************************)
EXTENDS Integers, Sequences, FiniteSets, TLC

VARIABLES
    mps_status,      \* "none" before MPS(...); "ok" | "ValueError" after it
    mps_img_dims,    \* the img_dims argument of MPS(...)
    mps_num_qubits,  \* self.num_qubits
    mps_circuit,     \* self._circuit: the composed blocks, in order
    mps_calls,       \* number of builder calls made on the instance
    mps_last,        \* the last builder call: method, argument, allocation, outcome
    tqu_log,         \* the last operation and the TwoQubitUnitary calls it made
    neqr_status,     \* "none" before NEQR(...); "ok" or the error raised
    neqr_args,       \* the arguments of NEQR(...)
    neqr_feature_dim,
    neqr_color_qubits,
    neqr_qubits,     \* width of self._circuit, NoCircuit when none was allocated
    neqr_circuit,    \* calls made on self.circuit, in order
    neqr_builds,     \* number of build_circuit calls made on the instance
    ql_status,       \* "none" before QuanvolutionalLayer(...); "ok" or the error
    ql_args,         \* the arguments of QuanvolutionalLayer(...)
    ql_fields        \* the attributes the constructor has set

mps_vars == <<mps_status, mps_img_dims, mps_num_qubits, mps_circuit, mps_calls,
              mps_last, tqu_log>>
neqr_vars == <<neqr_status, neqr_args, neqr_feature_dim, neqr_color_qubits,
               neqr_qubits, neqr_circuit, neqr_builds>>
ql_vars == <<ql_status, ql_args, ql_fields>>
vars == <<mps_vars, neqr_vars, ql_vars>>

\* ------------------------------------------------------------------ bounds
\* image dimensions range over -MaxDim..MaxDim (MPS) and 1..MaxDim (NEQR, layer)
MaxDim == 2
\* builder calls made on one instance
MaxCalls == 2
\* max_color_intensity ranges over -MciMargin .. 255 + MciMargin
MciMargin == 1

\* ------------------------------------------------------------------ helpers
\* math.prod over a tuple
RECURSIVE prod(_)
prod(t) == IF Len(t) = 0 THEN 1 ELSE Head(t) * prod(Tail(t))

\* min over a non-empty tuple
RECURSIVE min(_)
min(t) == IF Len(t) = 1 THEN t[1]
          ELSE LET m == min(Tail(t)) IN IF t[1] < m THEN t[1] ELSE m

\* ParameterVector("theta", length): theta[0] .. theta[length-1]
ParameterVector(length) == [i \in 1..length |-> i - 1]

\* parameter_vector[k:]
SliceFrom(pv, k) == IF k >= Len(pv) THEN <<>> ELSE SubSeq(pv, k + 1, Len(pv))

\* parameter_vector[0], ..., parameter_vector[k-1]
Prefix(pv, k) == SubSeq(pv, 1, k)

\* ------------------------------------------------------------------ TwoQubitUnitary
\* gates/two_qubit_unitary.py is not among the sources; its block builders are
\* modelled from their contract: a simple block uses 2 parameters, a general
\* block 6 (real) or 15 (complex), and each returns the unused remainder.
BlockParams(builder) ==
    CASE builder = "real_simple_block" -> 2
      [] builder = "complex_simple_block" -> 2
      [] builder = "real_general_block" -> 6
      [] builder = "complex_general_block" -> 15

\* One block builder call: the block and the remaining parameters, IndexError
\* when the vector is too short for the block.
BlockBuilder(builder, pv) ==
    IF Len(pv) < BlockParams(builder)
    THEN [raised |-> "IndexError", block |-> <<>>, rest |-> pv]
    ELSE [raised |-> "none",
          block |-> <<builder, Prefix(pv, BlockParams(builder))>>,
          rest |-> SliceFrom(pv, BlockParams(builder))]

\* simple_parameterization / general_parameterization: validate
\* complex_structure, then dispatch to the real or the complex block builder.
\* `entry` is the record of the call: the builders called and their argument.
Parameterization(kind, pv, complex_structure) ==
    IF complex_structure \notin {"True", "False"}
    THEN [raised |-> "TypeError", block |-> <<>>, rest |-> pv,
          entry |-> [fn |-> kind, pv |-> pv, cs |-> complex_structure,
                     builders |-> <<>>, raised |-> "TypeError"]]
    ELSE LET builder == IF complex_structure = "True"
                        THEN "complex_" \o kind \o "_block"
                        ELSE "real_" \o kind \o "_block"
             r == BlockBuilder(builder, pv)
         IN [raised |-> r.raised, block |-> r.block, rest |-> r.rest,
             entry |-> [fn |-> kind, pv |-> pv, cs |-> complex_structure,
                        builders |-> << <<builder, pv>> >>, raised |-> r.raised]]

\* ------------------------------------------------------------------ MPS
\* MPS.__init__: the outcome of the constructor for a tuple of ints
MPS_init(img_dims) ==
    IF prod(img_dims) <= 0
    THEN [status |-> "ValueError", num_qubits |-> 0]
    ELSE [status |-> "ok", num_qubits |-> prod(img_dims)]

\* the loop of mps_backbone from `index` up to, not including, `stop`
RECURSIVE backbone_loop(_, _, _, _, _, _, _)
backbone_loop(index, stop, gate_structure, pv, complex_structure, circuit, log) ==
    IF index >= stop
    THEN [raised |-> "none", circuit |-> circuit, rest |-> pv, log |-> log]
    ELSE LET r == Parameterization(gate_structure, pv, complex_structure)
         IN IF r.raised # "none"
            THEN [raised |-> r.raised, circuit |-> circuit, rest |-> pv,
                  log |-> Append(log, r.entry)]
            ELSE backbone_loop(index + 1, stop, gate_structure, r.rest,
                               complex_structure,
                               Append(circuit, [block |-> r.block,
                                                qubits |-> <<index, index + 1>>]),
                               Append(log, r.entry))

\* mutant: the loop runs over range(0, num_qubits)
mps_backbone_one_more(circuit, num_qubits, gate_structure, pv, complex_structure) ==
    backbone_loop(0, num_qubits, gate_structure, pv, complex_structure,
                  circuit, <<>>)

\* mutant: the blocks are built with the default complex_structure
mps_backbone_default_structure(circuit, num_qubits, gate_structure, pv, complex_structure) ==
    backbone_loop(0, num_qubits - 1, gate_structure, pv, "True", circuit, <<>>)

\* MPS.mps_backbone: composes onto self.circuit in place
mps_backbone(circuit, num_qubits, gate_structure, pv, complex_structure) ==
    backbone_loop(0, num_qubits - 1, gate_structure, pv, complex_structure,
                  circuit, <<>>)

\* the length mps_simple gives its parameter vector
SimpleVectorLength(num_qubits) == 2 * num_qubits - 2

\* the length mps_general gives its parameter vector; `if complex_structure:`
\* takes the complex branch for True only (None is falsy)
GeneralVectorLength(num_qubits, complex_structure) ==
    IF complex_structure = "True" THEN 15 * num_qubits - 2
    ELSE 6 * num_qubits - 2

NoCall == [method |-> "none", cs |-> "none", allocated |-> 0,
           rest |-> <<>>, result |-> "none"]

\* the effect of one builder call on the instance
Builder(method, gate_structure, length, complex_structure) ==
    LET r == mps_backbone(mps_circuit, mps_num_qubits, gate_structure,
                          ParameterVector(length), complex_structure)
    IN /\ mps_circuit' = r.circuit
       /\ tqu_log' = [by |-> method, calls |-> r.log]
       /\ mps_calls' = mps_calls + 1
       /\ mps_last' = [method |-> method, cs |-> complex_structure,
                       allocated |-> length, rest |-> r.rest,
                       result |-> IF r.raised = "none" THEN "returned"
                                  ELSE r.raised]
       /\ UNCHANGED <<mps_status, mps_img_dims, mps_num_qubits>>

Dims == (0 - MaxDim)..MaxDim
Structures == {"True", "False", "None"}

New_MPS(img_dims) ==
    /\ mps_status = "none"
    /\ mps_status' = MPS_init(img_dims).status
    /\ mps_img_dims' = img_dims
    /\ mps_num_qubits' = MPS_init(img_dims).num_qubits
    /\ UNCHANGED <<mps_circuit, mps_calls, mps_last, tqu_log>>
    /\ UNCHANGED <<neqr_vars, ql_vars>>

Call_mps_simple(complex_structure) ==
    /\ mps_status = "ok"
    /\ mps_calls < MaxCalls
    /\ Builder("mps_simple", "simple", SimpleVectorLength(mps_num_qubits),
               complex_structure)
    /\ UNCHANGED <<neqr_vars, ql_vars>>

Call_mps_general(complex_structure) ==
    /\ mps_status = "ok"
    /\ mps_calls < MaxCalls
    /\ Builder("mps_general", "general",
               GeneralVectorLength(mps_num_qubits, complex_structure),
               complex_structure)
    /\ UNCHANGED <<neqr_vars, ql_vars>>

\* a direct call of TwoQubitUnitary().simple_parameterization
Call_simple_parameterization(length, complex_structure) ==
    /\ tqu_log' = [by |-> "direct",
                    calls |-> <<Parameterization("simple", ParameterVector(length),
                                                 complex_structure).entry>>]
    /\ UNCHANGED <<mps_status, mps_img_dims, mps_num_qubits, mps_circuit,
                   mps_calls, mps_last>>
    /\ UNCHANGED <<neqr_vars, ql_vars>>

\* a direct call of TwoQubitUnitary().general_parameterization
Call_general_parameterization(length, complex_structure) ==
    /\ tqu_log' = [by |-> "direct",
                    calls |-> <<Parameterization("general", ParameterVector(length),
                                                 complex_structure).entry>>]
    /\ UNCHANGED <<mps_status, mps_img_dims, mps_num_qubits, mps_circuit,
                   mps_calls, mps_last>>
    /\ UNCHANGED <<neqr_vars, ql_vars>>

\* parameter vector lengths handed to a direct TwoQubitUnitary call
DirectLengths == {2, 6, 15}

InitMPS ==
    /\ mps_status = "none"
    /\ mps_img_dims = <<>>
    /\ mps_num_qubits = 0
    /\ mps_circuit = <<>>
    /\ mps_calls = 0
    /\ mps_last = NoCall
    /\ tqu_log = [by |-> "none", calls |-> <<>>]

NextMPS ==
    \/ \E w \in Dims, h \in Dims : New_MPS(<<w, h>>)
    \/ \E cs \in Structures : Call_mps_simple(cs)
    \/ \E cs \in Structures : Call_mps_general(cs)
    \/ \E n \in DirectLengths, cs \in Structures : Call_simple_parameterization(n, cs)
    \/ \E n \in DirectLengths, cs \in Structures : Call_general_parameterization(n, cs)

\* ------------------------------------------------------------------ NEQR
NoCircuit == 0 - 1

\* image_embedding.py is not among the sources: ImageEmbedding.__init__ keeps
\* img_dims and pixel_vals after checking the number of pixels and their range
ImageEmbedding_init(img_dims, pixel_vals) ==
    IF Len(pixel_vals) # prod(img_dims) THEN "ValueError:pixel_count"
    ELSE IF \E k \in 1..Len(pixel_vals) : pixel_vals[k] < 0 \/ pixel_vals[k] > 255
         THEN "ValueError:pixel_range"
         ELSE "ok"

\* image_embedding_mixin.py is not among the sources: validate_square_images
\* raises when the dimensions of img_dims are not all the same
validate_square_images(img_dims) ==
    IF \E i, j \in 1..Len(img_dims) : img_dims[i] # img_dims[j]
    THEN "ValueError:square" ELSE "ok"

\* int(np.ceil(np.sqrt(n))) for n >= 0
RECURSIVE CeilSqrtFrom(_, _)
CeilSqrtFrom(n, k) == IF k * k >= n THEN k ELSE CeilSqrtFrom(n, k + 1)
CeilSqrt(n) == CeilSqrtFrom(n, 0)

\* int(np.ceil(math.log(m, 2))) for m >= 1 (the float quotient is exact
\* enough for every m the constructor lets through, 1..256)
RECURSIVE CeilLog2(_)
CeilLog2(m) == IF m <= 1 THEN 0 ELSE 1 + CeilLog2((m + 1) \div 2)

Failed(status) == [status |-> status, feature_dim |-> 0, color_qubits |-> 0,
                   qubits |-> NoCircuit]

\* mutant: the intensity check runs before the square-image check
NEQR_init_intensity_first(img_dims, pixel_vals, max_color_intensity) ==
    IF ImageEmbedding_init(img_dims, pixel_vals) # "ok"
    THEN Failed(ImageEmbedding_init(img_dims, pixel_vals))
    ELSE IF max_color_intensity < 0 \/ max_color_intensity > 255
    THEN Failed("ValueError:max_color_intensity")
    ELSE IF validate_square_images(img_dims) # "ok"
    THEN Failed(validate_square_images(img_dims))
    ELSE [status |-> "ok",
          feature_dim |-> CeilSqrt(prod(img_dims)),
          color_qubits |-> CeilLog2(max_color_intensity + 1),
          qubits |-> CeilSqrt(prod(img_dims)) + CeilLog2(max_color_intensity + 1)]

\* mutant: the upper limit is tested with >=, and the color register is sized
\* for max_color_intensity instead of max_color_intensity + 1
NEQR_init_off_by_one(img_dims, pixel_vals, max_color_intensity) ==
    IF ImageEmbedding_init(img_dims, pixel_vals) # "ok"
    THEN Failed(ImageEmbedding_init(img_dims, pixel_vals))
    ELSE IF validate_square_images(img_dims) # "ok"
    THEN Failed(validate_square_images(img_dims))
    ELSE IF max_color_intensity < 0 \/ max_color_intensity >= 255
    THEN Failed("ValueError:max_color_intensity")
    ELSE [status |-> "ok",
          feature_dim |-> CeilSqrt(prod(img_dims)),
          color_qubits |-> CeilLog2(max_color_intensity),
          qubits |-> CeilSqrt(prod(img_dims)) + CeilLog2(max_color_intensity)]

\* NEQR.__init__
NEQR_init(img_dims, pixel_vals, max_color_intensity) ==
    IF ImageEmbedding_init(img_dims, pixel_vals) # "ok"
    THEN Failed(ImageEmbedding_init(img_dims, pixel_vals))
    ELSE IF validate_square_images(img_dims) # "ok"
    THEN Failed(validate_square_images(img_dims))
    ELSE IF max_color_intensity < 0 \/ max_color_intensity > 255
    THEN Failed("ValueError:max_color_intensity")
    ELSE [status |-> "ok",
          feature_dim |-> CeilSqrt(prod(img_dims)),
          color_qubits |-> CeilLog2(max_color_intensity + 1),
          qubits |-> CeilSqrt(prod(img_dims)) + CeilLog2(max_color_intensity + 1)]

\* the digits of format(n, "b") for n >= 0
RECURSIVE Bits(_)
Bits(n) == IF n < 2 THEN <<n>> ELSE Append(Bits(n \div 2), n % 2)

\* f"{n:0>{width}b}": the binary digits, padded on the left with zeros
FormatBinary(n, width) ==
    IF Len(Bits(n)) >= width THEN Bits(n)
    ELSE [i \in 1..(width - Len(Bits(n))) |-> 0] \o Bits(n)

\* the gate calls among gate(0), ..., gate(Len(digits)-1) whose digit is `on`
RECURSIVE GatesWhere(_, _, _, _, _)
GatesWhere(digits, on, gate, controls, offset) ==
    IF Len(digits) = 0 THEN <<>>
    ELSE LET rest == GatesWhere(SubSeq(digits, 1, Len(digits) - 1), on, gate,
                                controls, offset)
         IN IF digits[Len(digits)] = on
            THEN Append(rest, [gate |-> gate, controls |-> controls,
                               qubit |-> offset + Len(digits) - 1])
            ELSE rest

\* image_embedding_mixin.py is not among the sources: pixel_position puts an
\* X gate on qubit `index` for every "0" at `index` of the position string
pixel_position(pixel_pos_binary) ==
    [call |-> "pixel_position", pos |-> pixel_pos_binary, index |-> 0,
     gates |-> GatesWhere(pixel_pos_binary, 0, "x", 0, 0)]

\* NEQR.pixel_value: a multi-controlled X, controlled by the feature_dim
\* position qubits, on qubit feature_dim + index for every "1" of the color byte
pixel_value(feature_dim, pixel_vals, pixel_pos) ==
    [call |-> "pixel_value", pos |-> <<>>, index |-> pixel_pos,
     gates |-> GatesWhere(FormatBinary(pixel_vals[pixel_pos + 1], 8), 1, "mct",
                          feature_dim, feature_dim)]

\* self.circuit.h(i)
hadamard(i) ==
    [call |-> "h", pos |-> <<>>, index |-> i,
     gates |-> <<[gate |-> "h", controls |-> 0, qubit |-> i]>>]

\* the pixel loop of build_circuit, for pixel in range(pixel, num_theta)
RECURSIVE pixel_loop(_, _, _, _, _)
pixel_loop(pixel, num_theta, feature_dim, pixel_vals, circuit) ==
    IF pixel >= num_theta THEN circuit
    ELSE pixel_loop(pixel + 1, num_theta, feature_dim, pixel_vals,
                    circuit \o <<pixel_position(FormatBinary(pixel, 2)),
                                 pixel_value(feature_dim, pixel_vals, pixel),
                                 pixel_position(FormatBinary(pixel, 2))>>)

\* mutant: the pixel loop starts at pixel 1
build_circuit_skips_first(circuit, feature_dim, img_dims, pixel_vals) ==
    pixel_loop(1, prod(img_dims), feature_dim, pixel_vals,
               circuit \o [i \in 1..feature_dim |-> hadamard(i - 1)])

\* NEQR.build_circuit: works on self.circuit in place
build_circuit(circuit, feature_dim, img_dims, pixel_vals) ==
    pixel_loop(0, prod(img_dims), feature_dim, pixel_vals,
               circuit \o [i \in 1..feature_dim |-> hadamard(i - 1)])

\* pixel lists: ramps start, start + step, ... of the image's size or one more
PixelStarts == {0 - 1, 0, 100}
PixelSteps == {0, 1, 85}
PixelLists(n) ==
    {[k \in 1..len |-> start + step * (k - 1)] :
        start \in PixelStarts, step \in PixelSteps, len \in {n, n + 1}}
Intensities == (0 - MciMargin)..(255 + MciMargin)

\* NEQR(img_dims, pixel_vals, max_color_intensity), on the arguments drawn
\* in the initial state
New_NEQR ==
    /\ neqr_status = "none"
    /\ LET r == NEQR_init(neqr_args.img_dims, neqr_args.pixel_vals,
                          neqr_args.max_color_intensity)
       IN /\ neqr_status' = r.status
          /\ neqr_feature_dim' = r.feature_dim
          /\ neqr_color_qubits' = r.color_qubits
          /\ neqr_qubits' = r.qubits
    /\ UNCHANGED <<neqr_args, neqr_circuit, neqr_builds>>
    /\ UNCHANGED <<mps_vars, ql_vars>>

Call_build_circuit ==
    /\ neqr_status = "ok"
    /\ neqr_builds < MaxCalls
    /\ neqr_circuit' = build_circuit(neqr_circuit, neqr_feature_dim,
                                     neqr_args.img_dims, neqr_args.pixel_vals)
    /\ neqr_builds' = neqr_builds + 1
    /\ UNCHANGED <<neqr_status, neqr_args, neqr_feature_dim, neqr_color_qubits,
                   neqr_qubits>>
    /\ UNCHANGED <<mps_vars, ql_vars>>

\* no NEQR instance yet, and the arguments its constructor will get
NoNEQR(img_dims, pixel_vals, max_color_intensity) ==
    /\ neqr_status = "none"
    /\ neqr_args = [img_dims |-> img_dims, pixel_vals |-> pixel_vals,
                    max_color_intensity |-> max_color_intensity]
    /\ neqr_feature_dim = 0
    /\ neqr_color_qubits = 0
    /\ neqr_qubits = NoCircuit
    /\ neqr_circuit = <<>>
    /\ neqr_builds = 0

InitNEQR ==
    \E w \in 1..MaxDim, h \in 1..MaxDim :
        \E pixels \in PixelLists(w * h), mci \in Intensities :
            NoNEQR(<<w, h>>, pixels, mci)

NextNEQR ==
    \/ New_NEQR
    \/ Call_build_circuit

\* ------------------------------------------------------------------ QuanvolutionalLayer
\* QuanvolutionalLayer.__init__ for int tuples and an int stride: the outcome
\* and the attributes set before it
QuanvolutionalLayer_init(img_dims, filter_size, stride, random) ==
    IF filter_size[1] > min(img_dims)
    THEN [status |-> "ValueError", about |-> "filter_size",
          set |-> {"img_dims", "num_qubits"}]
    ELSE IF stride <= 0 \/ stride > min(img_dims)
    THEN [status |-> "ValueError", about |-> "stride",
          set |-> {"img_dims", "num_qubits", "filter_size"}]
    ELSE IF random \notin {"True", "False"}
    THEN [status |-> "TypeError", about |-> "random",
          set |-> {"img_dims", "num_qubits", "filter_size", "stride"}]
    ELSE [status |-> "ok", about |-> "none",
          set |-> {"img_dims", "num_qubits", "filter_size", "stride", "random",
                   "pixel_vals"}]

New_QuanvolutionalLayer(img_dims, filter_size, stride, random) ==
    /\ ql_status = "none"
    /\ ql_status' = QuanvolutionalLayer_init(img_dims, filter_size, stride,
                                             random).status
    /\ ql_fields' = [about |-> QuanvolutionalLayer_init(img_dims, filter_size,
                                                        stride, random).about,
                     set |-> QuanvolutionalLayer_init(img_dims, filter_size,
                                                      stride, random).set,
                     num_qubits |-> prod(img_dims)]
    /\ ql_args' = [img_dims |-> img_dims, filter_size |-> filter_size,
                   stride |-> stride, random |-> random]
    /\ UNCHANGED <<mps_vars, neqr_vars>>

InitQL ==
    /\ ql_status = "none"
    /\ ql_args = [img_dims |-> <<>>, filter_size |-> <<>>, stride |-> 0,
                  random |-> "True"]
    /\ ql_fields = [about |-> "none", set |-> {}, num_qubits |-> 0]

NextQL ==
    \E w \in 1..MaxDim, h \in 1..MaxDim, fw \in 1..(MaxDim + 1),
       fh \in 1..(MaxDim + 1), stride \in 0..(MaxDim + 1),
       random \in Structures :
        New_QuanvolutionalLayer(<<w, h>>, <<fw, fh>>, stride, random)

\* ------------------------------------------------------------------ specifications
\* no instance of any class exists
Init == InitMPS /\ NoNEQR(<<>>, <<>>, 255) /\ InitQL

\* no instance exists and the arguments of NEQR(...) are drawn
InitArgsNEQR == InitMPS /\ InitNEQR /\ InitQL

SpecMPS == Init /\ [][NextMPS]_vars
SpecNEQR == InitArgsNEQR /\ [][NextNEQR]_vars
SpecQL == Init /\ [][NextQL]_vars

\* ------------------------------------------------------------------ properties
Booleans == {"True", "False"}

\* C1: one call of mps_simple or mps_general (with a bool complex_structure) on
\* a fresh MPS instance of n qubits returns with exactly n-1 blocks on the
\* circuit, the k-th on the qubit pair (k, k+1), k ascending; none for n = 1.
C1_BackboneBlocks ==
    (mps_calls = 1 /\ mps_last.cs \in Booleans) =>
        /\ mps_last.result = "returned"
        /\ Len(mps_circuit) = mps_num_qubits - 1
        /\ \A k \in 0..(mps_num_qubits - 2) :
              mps_circuit[k + 1].qubits = <<k, k + 1>>

C1_Witness ==
    /\ mps_calls = 1
    /\ mps_last.cs \in Booleans
    /\ mps_num_qubits = 4
    /\ Len(mps_circuit) = 3
    /\ mps_circuit[3].qubits = <<2, 3>>

\* C2: MPS(img_dims) raises ValueError exactly when some image dimension is
\* zero or negative, and constructs the circuit only when all are positive.
C2_ValueErrorIffNonPositive ==
    mps_status # "none" =>
        (mps_status = "ValueError" <=>
            \E i \in 1..Len(mps_img_dims) : mps_img_dims[i] <= 0)

\* C3: on an instance with positive dimensions, the parameter vector a
\* builder allocates is used up exactly by the n-1
\* blocks of the backbone: the call returns (no parameter is missing) and the
\* remainder after the last block is empty (no parameter is left unused).
C3_ParametersExact ==
    (/\ mps_last.method # "none"
     /\ mps_last.cs \in Booleans
     /\ \A i \in 1..Len(mps_img_dims) : mps_img_dims[i] > 0) =>
        /\ mps_last.result = "returned"
        /\ Len(mps_last.rest) = 0

\* C4: NEQR(...) with two different image dimensions raises the square-image
\* ValueError, whatever max_color_intensity is, and no circuit is allocated.
C4_SquareCheckFirst ==
    (neqr_status # "none" /\ neqr_args.img_dims[1] # neqr_args.img_dims[2]) =>
        /\ neqr_status \notin {"ok", "ValueError:max_color_intensity"}
        /\ neqr_qubits = NoCircuit
        /\ neqr_circuit = <<>>
        /\ ImageEmbedding_init(neqr_args.img_dims, neqr_args.pixel_vals) = "ok"
              => neqr_status = "ValueError:square"

C4_Witness ==
    /\ neqr_status = "ValueError:square"
    /\ neqr_args.img_dims = <<1, 2>>
    /\ neqr_args.max_color_intensity > 255
    /\ neqr_qubits = NoCircuit

\* k is the least natural number with 2^k >= m
IsCeilLog2(k, m) == 2 ^ k >= m /\ (k = 0 \/ 2 ^ (k - 1) < m)

\* C5: with a valid square image, NEQR(...) raises ValueError exactly when
\* max_color_intensity is below 0 or above 255; for 0..255 it succeeds with a
\* circuit of feature_dim + ceil(log2(max_color_intensity + 1)) qubits.
C5_IntensityRange ==
    (/\ neqr_status # "none"
     /\ ImageEmbedding_init(neqr_args.img_dims, neqr_args.pixel_vals) = "ok"
     /\ neqr_args.img_dims[1] = neqr_args.img_dims[2]) =>
        LET m == neqr_args.max_color_intensity
        IN /\ neqr_status \in {"ok", "ValueError:max_color_intensity"}
           /\ neqr_status = "ValueError:max_color_intensity" <=> (m < 0 \/ m > 255)
           /\ neqr_status = "ok" =>
                \E k \in 0..8 : /\ IsCeilLog2(k, m + 1)
                                /\ neqr_qubits = neqr_feature_dim + k

C5_Witness ==
    /\ neqr_status = "ok"
    /\ neqr_args.max_color_intensity = 255
    /\ neqr_args.img_dims = <<2, 2>>
    /\ neqr_qubits = neqr_feature_dim + 8

\* C6: the first build_circuit emits a Hadamard on each position qubit
\* 0..feature_dim-1, then for each pixel 0..product(img_dims)-1 in ascending
\* order pixel_position(p), pixel_value(pixel), pixel_position(p) with the
\* same p; every pixel exactly once.
C6_BuildOrder ==
    neqr_builds = 1 =>
        LET fd == neqr_feature_dim
            n == prod(neqr_args.img_dims)
            c == neqr_circuit
        IN /\ Len(c) = fd + 3 * n
           /\ \A i \in 0..(fd - 1) : c[i + 1].call = "h" /\ c[i + 1].index = i
           /\ \A p \in 0..(n - 1) :
                /\ c[fd + 3 * p + 1].call = "pixel_position"
                /\ c[fd + 3 * p + 2].call = "pixel_value"
                /\ c[fd + 3 * p + 2].index = p
                /\ c[fd + 3 * p + 3].call = "pixel_position"
                /\ c[fd + 3 * p + 3].pos = c[fd + 3 * p + 1].pos

C6_Witness ==
    /\ neqr_builds = 1
    /\ neqr_args.img_dims = <<2, 2>>
    /\ Len(neqr_circuit) = 14
    /\ neqr_circuit[14].call = "pixel_position"
    /\ neqr_circuit[14].pos = <<1, 1>>

\* C7: QuanvolutionalLayer(...) raises ValueError whenever a component of
\* filter_size exceeds min(img_dims); a constructed layer's filter fits inside
\* the image in both directions.
C7_FilterFits ==
    ql_status # "none" =>
        /\ (\E i \in 1..2 : ql_args.filter_size[i] > min(ql_args.img_dims))
              => ql_status = "ValueError"
        /\ ql_status = "ok"
              => \A i \in 1..2 : ql_args.filter_size[i] <= min(ql_args.img_dims)

\* C8: a circuit is built once: after one or more builder calls on the same MPS
\* instance (of positive dimensions) the circuit holds exactly n-1 blocks, as after the first call.
C8_BuiltOnce ==
    (/\ mps_calls >= 1
     /\ mps_last.result = "returned"
     /\ \A i \in 1..Len(mps_img_dims) : mps_img_dims[i] > 0) =>
        Len(mps_circuit) = mps_num_qubits - 1

\* C9: a parameterization called with False calls the real block builder once
\* with the given vector and nothing else, with True the complex one; with a
\* non-bool it raises TypeError and calls no builder.  Every block of an MPS
\* builder call gets the caller's complex_structure.
C9_Dispatch ==
    \A i \in 1..Len(tqu_log.calls) :
        LET e == tqu_log.calls[i]
        IN /\ (e.cs = "False" /\ e.fn = "simple")
                 => e.builders = << <<"real_simple_block", e.pv>> >>
           /\ (e.cs = "False" /\ e.fn = "general")
                 => e.builders = << <<"real_general_block", e.pv>> >>
           /\ (e.cs = "True" /\ e.fn = "simple")
                 => e.builders = << <<"complex_simple_block", e.pv>> >>
           /\ (e.cs = "True" /\ e.fn = "general")
                 => e.builders = << <<"complex_general_block", e.pv>> >>
           /\ e.cs \notin Booleans
                 => (e.raised = "TypeError" /\ e.builders = <<>>)
           /\ tqu_log.by = "mps_simple"
                 => (e.fn = "simple" /\ e.cs = mps_last.cs)
           /\ tqu_log.by = "mps_general"
                 => (e.fn = "general" /\ e.cs = mps_last.cs)

C9_Witness ==
    /\ tqu_log.by = "mps_general"
    /\ mps_last.cs = "False"
    /\ Len(tqu_log.calls) = 3
    /\ tqu_log.calls[3].builders[1][1] = "real_general_block"

====
